---- MODULE Spec2Model ----
(***************************************************************************)
(* Model of jina/peapods/stream/base.py: BaseStreamer._stream_requests     *)
(* (the engine without prefetching) and                                    *)
(* BaseStreamer._stream_requests_with_prefetch (the prefetching engine).   *)
(*                                                                         *)
(* One streaming call is modelled.  The asyncio event loop is single       *)
(* threaded: every action below is the code that runs between two          *)
(* suspension points (await / yield) of one task.                          *)
(***************************************************************************)
EXTENDS Integers, Sequences, FiniteSets, TLC

\* Bounds of the model: longest request iterator, largest prefetch argument,
\* largest number of requests whose handling fails.
MaxL == 4
MaxN == 3
MaxFails == 1

Ids == 1..MaxL

VARIABLES
    \* ---- inputs of the call, fixed by Init
    engine,               \* "unbounded": _stream_requests, "prefetch": _stream_requests_with_prefetch
    prefetch,             \* the prefetch argument (0 for the unbounded engine, which has none)
    num_requests,         \* number of requests the request iterator produces
    src_end,              \* how the request iterator ends: "stop" (StopAsyncIteration) or "fault" (raises)
    fails,                \* ids of the requests whose future completes with an exception
    \* ---- environment
    request_iterator,     \* the requests the iterator has still to produce
    status,               \* per request: "new", "pending" (future not done), "ok", "fail"
    \* ---- the async generator seen by the caller
    pc,                   \* where the generator is suspended, or how it finished
    \* ---- _stream_requests locals
    result_queue,         \* asyncio.Queue of (request_id, future)
    end_of_iter,          \* asyncio.Event
    requests_to_handle,   \* set of request ids
    all_requests_handled, \* asyncio.Event
    get_result_task,      \* the task running result_queue.get()
    iter_task,            \* the task running iterate_requests()
    \* ---- _stream_requests_with_prefetch locals
    prefetch_task,        \* list of futures being drained
    onrecv_task,          \* list of futures dispatched while draining
    is_req_empty,         \* result of the last iterate_requests call
    count,                \* iterate_requests: count
    num_req,              \* iterate_requests: num_req
    ac_registered,        \* asyncio.as_completed: futures carrying _on_completion
    ac_done,              \* asyncio.as_completed: its internal done queue
    ac_left,              \* asyncio.as_completed: results not yet awaited
    \* ---- observations (history)
    dispatched,           \* request ids in the order of the _handle_request calls
    completed,            \* request ids in the order their futures completed
    yielded,              \* request ids in the order their results were yielded
    window_of,            \* per request: number of the drain pass whose window holds it (prefetch)
    late,                 \* requests whose future completed after as_completed registered it
    pass,                 \* number of drain passes started (prefetch)
    eoi_calls,            \* number of _handle_end_of_iter calls
    log_errors,           \* number of logger.error calls
    reads,                \* per request: number of future.result() calls
    set_by                \* who set all_requests_handled: "none", "producer", "consumer"

inputs == <<engine, prefetch, num_requests, src_end, fails>>
unbVars == <<result_queue, end_of_iter, requests_to_handle, all_requests_handled,
             get_result_task, iter_task, set_by>>
preVars == <<prefetch_task, onrecv_task, is_req_empty, count, num_req,
             ac_registered, ac_done, ac_left, window_of, late, pass>>
obsVars == <<dispatched, completed, yielded, eoi_calls, log_errors, reads>>
vars == <<inputs, request_iterator, status, pc, unbVars, preVars, obsVars>>

----------------------------------------------------------------------------
\* Helpers

Range(s) == {s[i] : i \in 1..Len(s)}

\* Position of x in the sequence s (0 when absent)
Pos(s, x) == IF x \in Range(s) THEN CHOOSE i \in 1..Len(s) : s[i] = x ELSE 0

\* All orderings of the finite set S
Perms(S) == {p \in [1..Cardinality(S) -> S] : \A i, j \in 1..Cardinality(S) : p[i] = p[j] => i = j}

NoTask == [st |-> "none", rid |-> 0]
PendingTask == [st |-> "pending", rid |-> 0]
DoneTask(r) == [st |-> "done", rid |-> r]

\* The generator has finished (normally or by raising)
Finished == pc \in {"done", "op_fault", "src_fault"}

----------------------------------------------------------------------------
\* The request iterator (AsyncRequestsIterator over request_iterator)

\* the requests the caller's iterator produces: num_requests requests with
\* the unique ids 1, 2, ... in this order
Source == [i \in 1..num_requests |-> i]

\* what the next __anext__ does: "item", "stop" or "fault"
NextKind(it) == IF it # <<>> THEN "item" ELSE src_end

\* Faulty variant of NextRequest: hands out the last request, not the next one.
NextRequestLast(it) == it[Len(it)]

\* the request the next __anext__ returns
NextRequest(it) == Head(it)

\* the outcome of a completed future
Outcome(r) == IF r \in fails THEN "fail" ELSE "ok"

----------------------------------------------------------------------------
Init ==
    /\ engine \in {"unbounded", "prefetch"}
    /\ prefetch \in 0..MaxN
    /\ (engine = "unbounded") = (prefetch = 0)
    /\ num_requests \in 0..MaxL
    /\ src_end \in {"stop", "fault"}
    /\ fails \in {F \in SUBSET (1..num_requests) : Cardinality(F) <= MaxFails}
    /\ request_iterator = Source
    /\ status = [r \in Ids |-> "new"]
    /\ pc = "start"
    /\ result_queue = <<>>
    /\ end_of_iter = FALSE
    /\ requests_to_handle = {}
    /\ all_requests_handled = FALSE
    /\ get_result_task = NoTask
    /\ iter_task = "none"
    /\ prefetch_task = <<>>
    /\ onrecv_task = <<>>
    /\ is_req_empty = FALSE
    /\ count = 0
    /\ num_req = 0
    /\ ac_registered = {}
    /\ ac_done = <<>>
    /\ ac_left = 0
    /\ dispatched = <<>>
    /\ completed = <<>>
    /\ yielded = <<>>
    /\ window_of = [r \in Ids |-> 0]
    /\ late = {}
    /\ pass = 0
    /\ eoi_calls = 0
    /\ log_errors = 0
    /\ reads = [r \in Ids |-> 0]
    /\ set_by = "none"

----------------------------------------------------------------------------
\* Completion of a dispatched request's future (the dispatcher's doing).

\* Faulty variant of Callback: the entry jumps the queue.
CallbackFront(q, r) == <<r>> \o q

\* callback(future): result_queue.put_nowait((request.request_id, future))
Callback(q, r) == Append(q, r)

\* Faulty variant of OnCompletion: the future jumps the done queue.
OnCompletionFront(q, r) == <<r>> \o q

\* as_completed's _on_completion(f): done.put_nowait(f)
OnCompletion(q, r) == Append(q, r)

\* Faulty variant of ReadInCallback: the callback queues future.result().
ReadInCallbackYes == TRUE

\* Whether a done callback calls future.result(): callback queues the future
\* itself, and _on_completion queues the future itself.
ReadInCallback == FALSE

\* The future of request r completes; its done callbacks run.
Complete(r) ==
    /\ status[r] = "pending"
    /\ status' = [status EXCEPT ![r] = Outcome(r)]
    /\ completed' = Append(completed, r)
    /\ IF engine = "unbounded"
       THEN /\ result_queue' = Callback(result_queue, r)
            /\ UNCHANGED <<ac_done, late>>
       ELSE /\ IF r \in ac_registered
               THEN /\ ac_done' = OnCompletion(ac_done, r)
                    /\ late' = late \cup {r}
               ELSE UNCHANGED <<ac_done, late>>
            /\ UNCHANGED result_queue
    /\ UNCHANGED <<inputs, request_iterator, pc, end_of_iter, requests_to_handle,
                   all_requests_handled, get_result_task, iter_task, set_by,
                   prefetch_task, onrecv_task, is_req_empty, count, num_req,
                   ac_registered, ac_left, window_of, pass,
                   dispatched, yielded, eoi_calls, log_errors>>
    /\ reads' = IF ReadInCallback THEN [reads EXCEPT ![r] = @ + 1] ELSE reads

FutureDone == \E r \in Ids : Complete(r)

----------------------------------------------------------------------------
\* _stream_requests (no prefetching)

\* First pull of the caller: the body runs up to the first asyncio.wait.
StreamRequestsStart ==
    /\ engine = "unbounded"
    /\ pc = "start"
    /\ iter_task' = "running"
    /\ get_result_task' = IF ~all_requests_handled THEN PendingTask ELSE get_result_task
    /\ pc' = IF all_requests_handled THEN "done" ELSE "wait"
    /\ UNCHANGED <<inputs, request_iterator, status, result_queue, end_of_iter,
                   requests_to_handle, all_requests_handled, set_by, preVars, obsVars>>

\* Faulty variant of MayDispatch: the producer holds back while two requests
\* are unhandled.
MayDispatchBounded(pending) == Cardinality(pending) < 1 + 1

\* The body of the `async for` of iterate_requests dispatches at once: nothing
\* is awaited between receiving a request and _handle_request.
MayDispatch(pending) == TRUE

\* Faulty variant of ProducerAllHandled: the producer never sets the event.
ProducerAllHandledNever(pending) == FALSE

\* Faulty variant of ProducerAllHandled: the set is not consulted.
ProducerAllHandledAlways(pending) == TRUE

\* `len(requests_to_handle) == 0` at the end of iterate_requests
ProducerAllHandled(pending) == pending = {}

\* One step of the iterate_requests task: from one __anext__ to the next.
IterateRequests ==
    /\ engine = "unbounded"
    /\ iter_task = "running"
    /\ LET kind == NextKind(request_iterator) IN
       CASE kind = "item" ->
              LET r == NextRequest(request_iterator) IN
              /\ MayDispatch(requests_to_handle)
              /\ requests_to_handle' = requests_to_handle \cup {r}
              /\ status' = [status EXCEPT ![r] = "pending"]
              /\ dispatched' = Append(dispatched, r)
              /\ request_iterator' = Tail(request_iterator)
              /\ UNCHANGED <<iter_task, end_of_iter, all_requests_handled, set_by, eoi_calls>>
         [] kind = "stop" ->
              /\ eoi_calls' = eoi_calls + 1
              /\ end_of_iter' = TRUE
              /\ IF ProducerAllHandled(requests_to_handle)
                 THEN all_requests_handled' = TRUE /\ set_by' = "producer"
                 ELSE UNCHANGED <<all_requests_handled, set_by>>
              /\ iter_task' = "done"
              /\ UNCHANGED <<requests_to_handle, status, dispatched, request_iterator>>
         [] kind = "fault" ->
              /\ iter_task' = "faulted"
              /\ UNCHANGED <<requests_to_handle, status, dispatched, request_iterator,
                             end_of_iter, all_requests_handled, set_by, eoi_calls>>
    /\ UNCHANGED <<inputs, pc, result_queue, get_result_task, preVars,
                   completed, yielded, log_errors, reads>>

\* The result_queue.get() task obtains the oldest entry.
GetResult ==
    /\ get_result_task.st = "pending"
    /\ result_queue # <<>>
    /\ get_result_task' = DoneTask(Head(result_queue))
    /\ result_queue' = Tail(result_queue)
    /\ UNCHANGED <<inputs, request_iterator, status, pc, end_of_iter, requests_to_handle,
                   all_requests_handled, iter_task, set_by, preVars, obsVars>>

\* Faulty variant of WaitReturns: only the get task is waited for.
WaitReturnsOnResultOnly(task, flag) == task.st = "done"

\* `asyncio.wait([get_result_task, wait_all_requests_handled], FIRST_COMPLETED)`
\* returns when the get task is done or all_requests_handled is set.
WaitReturns(task, flag) == task.st = "done" \/ flag

\* asyncio.wait returns: a result is there, or all_requests_handled is set.
ConsumerWake ==
    /\ engine = "unbounded"
    /\ pc = "wait"
    /\ WaitReturns(get_result_task, all_requests_handled)
    /\ IF get_result_task.st = "done"
       THEN LET r == get_result_task.rid IN
            /\ reads' = [reads EXCEPT ![r] = @ + 1]
            /\ IF status[r] = "fail"
               THEN pc' = "op_fault" /\ UNCHANGED yielded
               ELSE pc' = "yield" /\ yielded' = Append(yielded, r)
       ELSE /\ pc' = "done"
            /\ UNCHANGED <<reads, yielded>>
    /\ UNCHANGED <<inputs, request_iterator, status, unbVars, preVars,
                   dispatched, completed, eoi_calls, log_errors>>

\* Faulty variant of ConsumerAllHandled: end_of_iter is not consulted.
ConsumerAllHandledNoEoi(pending, eoi) == pending = {}

\* `len(requests_to_handle) == 0 and end_of_iter.is_set()` after a yield
ConsumerAllHandled(pending, eoi) == pending = {} /\ eoi

\* Faulty variant of Remove: the id stays in the set.
RemoveNothing(pending, rid) == pending

\* `requests_to_handle.remove(request_id)`
Remove(pending, rid) == pending \ {rid}

\* The caller pulls again: the generator resumes after the yield.
ConsumerResume ==
    /\ engine = "unbounded"
    /\ pc = "yield"
    /\ LET left == Remove(requests_to_handle, get_result_task.rid) IN
       /\ requests_to_handle' = left
       /\ IF ConsumerAllHandled(left, end_of_iter)
          THEN /\ all_requests_handled' = TRUE
               /\ set_by' = "consumer"
               /\ pc' = "done"
               /\ UNCHANGED get_result_task
          ELSE /\ get_result_task' = PendingTask
               /\ pc' = IF all_requests_handled THEN "done" ELSE "wait"
               /\ UNCHANGED <<all_requests_handled, set_by>>
    /\ UNCHANGED <<inputs, request_iterator, status, result_queue, end_of_iter,
                   iter_task, preVars, obsVars>>

----------------------------------------------------------------------------
\* _stream_requests_with_prefetch

\* Faulty variant of RefillSize: two requests are fetched per yielded result.
RefillSizeTwo == 1 + 1

\* num_req of the iterate_requests call made after a yield
RefillSize == 1

\* `for r in asyncio.as_completed(window)` begins: as_completed attaches
\* _on_completion to every future of the window, iterating over a set of them.
\* A future that is already done has the callback scheduled at once, so the
\* futures already done enter the done queue in the set's iteration order,
\* which is any order.  Over an empty window the loop body never runs and
\* the generator returns.
AsCompleted(window, nextpc) ==
    \E p \in Perms({r \in Range(window) : status[r] \in {"ok", "fail"}}) :
        /\ prefetch_task' = window
        /\ ac_registered' = Range(window)
        /\ ac_done' = p
        /\ ac_left' = Len(window)
        /\ pass' = pass + 1
        /\ pc' = IF window = <<>> THEN "done" ELSE nextpc

\* Faulty variant of EmptyStream: the empty stream is never recognised.
EmptyStreamNever(e, pt) == FALSE

\* Faulty variant of NextWindow: the first future of onrecv_task is left out.
NextWindowRest(onr) == SubSeq(onr, 2, Len(onr))

\* Faulty variant of NextWindow: onrecv_task is not carried over.
NextWindowDropped(onr) == <<>>

\* `is_req_empty and not prefetch_task`
EmptyStream(e, pt) == e /\ pt = <<>>

\* `prefetch_task = [j for j in onrecv_task]`
NextWindow(onr) == onr

\* `is_req_empty = await iterate_requests(prefetch, prefetch_task)` has returned e
\* with prefetch_task = pt: the empty-stream check, then the choice of the loop.
AfterFill(e, pt) ==
    /\ is_req_empty' = e
    /\ onrecv_task' = <<>>
    /\ IF EmptyStream(e, pt)
       THEN /\ log_errors' = log_errors + 1
            /\ pc' = "done"
            /\ prefetch_task' = pt
            /\ UNCHANGED <<ac_registered, ac_done, ac_left, pass>>
       ELSE /\ UNCHANGED log_errors
            /\ AsCompleted(pt, IF e THEN "short_wait" ELSE "wait")

\* The steady loop goes on with is_req_empty = e and onrecv_task = onr: the next
\* result of the current as_completed, or the switch to onrecv_task, or the end.
NextIteration(e, onr) ==
    /\ is_req_empty' = e
    /\ UNCHANGED log_errors
    /\ IF ac_left > 0
       THEN /\ pc' = "wait"
            /\ onrecv_task' = onr
            /\ UNCHANGED <<prefetch_task, ac_registered, ac_done, ac_left, pass>>
       ELSE IF NextWindow(onr) = <<>>
       THEN /\ pc' = "done"
            /\ prefetch_task' = <<>>
            /\ onrecv_task' = onr
            /\ UNCHANGED <<ac_registered, ac_done, ac_left, pass>>
       ELSE /\ onrecv_task' = <<>>
            /\ AsCompleted(NextWindow(onr), "wait")

\* Faulty variant of ReachedNumReq: returns after the first request.
ReachedNumReqEarly(c, n) == c >= 1

\* Faulty variant of ReachedNumReq: returns one request late.
ReachedNumReqLate(c, n) == c > n

\* `count == num_req` in iterate_requests
ReachedNumReq(c, n) == c = n

\* First pull of the caller: the body runs up to the first __anext__ of
\* iterate_requests(prefetch, prefetch_task).
PrefetchStart ==
    /\ engine = "prefetch"
    /\ pc = "start"
    /\ prefetch_task' = <<>>
    /\ count' = 0
    /\ num_req' = prefetch
    /\ pc' = "fill"
    /\ UNCHANGED <<inputs, request_iterator, status, unbVars, onrecv_task, is_req_empty,
                   ac_registered, ac_done, ac_left, window_of, late, pass, obsVars>>

\* One step of iterate_requests(num_req, fetch_to): from one __anext__ to the
\* next, or to its return and on to the generator's next suspension point.
PrefetchIterate ==
    /\ engine = "prefetch"
    /\ pc \in {"fill", "refill"}
    /\ LET kind == NextKind(request_iterator) IN
       CASE kind = "item" ->
              LET r == NextRequest(request_iterator)
                  pt == IF pc = "fill" THEN Append(prefetch_task, r) ELSE prefetch_task
                  onr == IF pc = "fill" THEN onrecv_task ELSE Append(onrecv_task, r)
              IN
              /\ status' = [status EXCEPT ![r] = "pending"]
              /\ dispatched' = Append(dispatched, r)
              /\ request_iterator' = Tail(request_iterator)
              /\ window_of' = [window_of EXCEPT ![r] = pass + 1]
              /\ count' = count + 1
              /\ IF ReachedNumReq(count + 1, num_req)
                 THEN IF pc = "fill" THEN AfterFill(FALSE, pt) ELSE NextIteration(FALSE, onr)
                 ELSE /\ prefetch_task' = pt
                      /\ onrecv_task' = onr
                      /\ UNCHANGED <<pc, is_req_empty, log_errors,
                                     ac_registered, ac_done, ac_left, pass>>
         [] kind = "stop" ->
              /\ IF pc = "fill"
                 THEN AfterFill(TRUE, prefetch_task)
                 ELSE NextIteration(TRUE, onrecv_task)
              /\ UNCHANGED <<status, dispatched, request_iterator, window_of, count>>
         [] kind = "fault" ->
              /\ pc' = "src_fault"
              /\ UNCHANGED <<status, dispatched, request_iterator, window_of, count,
                             prefetch_task, onrecv_task, is_req_empty, log_errors,
                             ac_registered, ac_done, ac_left, pass>>
    /\ UNCHANGED <<inputs, unbVars, num_req, late, completed, yielded, eoi_calls, reads>>

\* `res = await r` returns the oldest entry of as_completed's done queue.
PrefetchAwait ==
    /\ engine = "prefetch"
    /\ pc \in {"wait", "short_wait"}
    /\ ac_done # <<>>
    /\ LET r == Head(ac_done) IN
       /\ ac_done' = Tail(ac_done)
       /\ ac_left' = ac_left - 1
       /\ reads' = [reads EXCEPT ![r] = @ + 1]
       /\ IF status[r] = "fail"
          THEN pc' = "op_fault" /\ UNCHANGED yielded
          ELSE /\ pc' = IF pc = "wait" THEN "yield" ELSE "short_yield"
               /\ yielded' = Append(yielded, r)
    /\ UNCHANGED <<inputs, request_iterator, status, unbVars, prefetch_task, onrecv_task,
                   is_req_empty, count, num_req, ac_registered, window_of, late, pass,
                   dispatched, completed, eoi_calls, log_errors>>

\* The caller pulls again: the generator resumes after the yield.
PrefetchResume ==
    /\ engine = "prefetch"
    /\ pc \in {"yield", "short_yield"}
    /\ IF pc = "short_yield"
       THEN /\ pc' = IF ac_left > 0 THEN "short_wait" ELSE "done"
            /\ UNCHANGED <<prefetch_task, onrecv_task, is_req_empty, count, num_req,
                           ac_registered, ac_done, ac_left, pass, log_errors>>
       ELSE IF ~is_req_empty
       THEN /\ count' = 0
            /\ num_req' = RefillSize
            /\ pc' = "refill"
            /\ UNCHANGED <<prefetch_task, onrecv_task, is_req_empty,
                           ac_registered, ac_done, ac_left, pass, log_errors>>
       ELSE /\ NextIteration(is_req_empty, onrecv_task)
            /\ UNCHANGED <<count, num_req>>
    /\ UNCHANGED <<inputs, request_iterator, status, unbVars, window_of, late,
                   dispatched, completed, yielded, eoi_calls, reads>>

----------------------------------------------------------------------------
Next ==
    \/ FutureDone
    \/ StreamRequestsStart
    \/ IterateRequests
    \/ GetResult
    \/ ConsumerWake
    \/ ConsumerResume
    \/ PrefetchStart
    \/ PrefetchIterate
    \/ PrefetchAwait
    \/ PrefetchResume

Spec == Init /\ [][Next]_vars

\* The event loop runs every task that is ready, the dispatcher completes
\* every future, and the caller keeps pulling.
FairSpec ==
    /\ Init /\ [][Next]_vars
    /\ WF_vars(FutureDone)
    /\ WF_vars(StreamRequestsStart)
    /\ WF_vars(IterateRequests)
    /\ WF_vars(GetResult)
    /\ WF_vars(ConsumerWake)
    /\ WF_vars(ConsumerResume)
    /\ WF_vars(PrefetchStart)
    /\ WF_vars(PrefetchIterate)
    /\ WF_vars(PrefetchAwait)
    /\ WF_vars(PrefetchResume)

\* The event loop runs every task that is ready, and the caller makes its
\* first pull; whether it ever pulls again, and whether futures complete, is
\* left open.
ProducerFairSpec ==
    /\ Init /\ [][Next]_vars
    /\ WF_vars(StreamRequestsStart)
    /\ WF_vars(IterateRequests)
    /\ WF_vars(PrefetchStart)

----------------------------------------------------------------------------
\* Properties

\* x occurs exactly once in the sequence s
Once(s, x) == Cardinality({i \in 1..Len(s) : s[i] = x}) = 1

\* x comes before y in the sequence s (both occur)
Before(s, x, y) == x \in Range(s) /\ y \in Range(s) /\ Pos(s, x) < Pos(s, y)

\* s is a prefix of t
IsPrefix(s, t) == Len(s) <= Len(t) /\ \A i \in 1..Len(s) : s[i] = t[i]

\* C1: unbounded engine, finite source of L requests that ends normally, every
\* operation successful: when the stream has finished, exactly L results were
\* yielded, exactly one per source request.
C1_ExactlyOnePerRequest ==
    (engine = "unbounded" /\ src_end = "stop" /\ fails = {} /\ pc = "done") =>
        /\ Len(yielded) = num_requests
        /\ \A r \in 1..num_requests : Once(yielded, r)

C1_Witness ==
    /\ engine = "unbounded" /\ src_end = "stop" /\ fails = {} /\ pc = "done"
    /\ num_requests = 3
    /\ Len(yielded) = 3
    /\ yielded # dispatched

\* C2: prefetch engine, window N >= 1, finite source of L > 0 requests, every
\* operation successful: handle_request is never called more than L times, and
\* when the stream has finished it was called exactly L times and exactly L
\* results were yielded, one per dispatched request.
C2_PrefetchExactlyL ==
    (engine = "prefetch" /\ src_end = "stop" /\ fails = {} /\ num_requests > 0) =>
        /\ Len(dispatched) <= num_requests
        /\ pc = "done" =>
            /\ Len(dispatched) = num_requests
            /\ Len(yielded) = num_requests
            /\ \A i \in 1..Len(dispatched) : Once(yielded, dispatched[i])

C2_Witness ==
    /\ engine = "prefetch" /\ src_end = "stop" /\ fails = {} /\ pc = "done"
    /\ prefetch = 2
    /\ num_requests = 4
    /\ Len(yielded) = 4
    /\ pass = 2

C4_YieldInCompletionOrder ==
    engine = "unbounded" =>
        /\ IsPrefix(yielded, completed)
        /\ LET held == IF get_result_task.st = "done" /\ get_result_task.rid \notin Range(yielded)
                       THEN <<get_result_task.rid>> ELSE <<>>
           IN  completed = yielded \o held \o result_queue

C4_Witness ==
    /\ engine = "unbounded"
    /\ dispatched = <<1, 2, 3>>
    /\ completed = <<2, 3, 1>>
    /\ yielded = <<2, 3, 1>>

\* C5: in either engine, with a source that ends normally and one operation
\* failing, the stream does not end before the result of every other request
\* has been yielded.
C5_StreamContinuesAfterFailure ==
    (src_end = "stop" /\ Cardinality(fails) = 1 /\ Finished) =>
        \A r \in 1..num_requests : r \notin fails => r \in Range(yielded)

\* The request iterator has raised while being iterated.
SourceFaulted == iter_task = "faulted" \/ pc = "src_fault"

\* C6: in either engine, once the request iterator has raised, the caller's
\* pull eventually ends with that fault (shown for operations that all succeed).
C6_ProducerFaultReachesCaller ==
    (fails = {}) => (SourceFaulted ~> (pc = "src_fault"))

\* C7: in each engine, handle_end_of_iter is called at most once, only after
\* the request iterator is exhausted, and has been called once by the time the
\* stream finishes normally.
C7_EndOfIterOnce ==
    /\ eoi_calls <= 1
    /\ eoi_calls = 1 => request_iterator = <<>>
    /\ (pc = "done" /\ src_end = "stop") => eoi_calls = 1

\* C8: prefetch engine: the number of requests dispatched whose result has not
\* been yielded never exceeds the prefetch size.
C8_UnyieldedAtMostPrefetch ==
    engine = "prefetch" => Len(dispatched) - Len(yielded) <= prefetch

C8_Witness ==
    /\ engine = "prefetch"
    /\ prefetch = 2
    /\ Len(yielded) = 2
    /\ Len(dispatched) = 4
    /\ Len(onrecv_task) = 0
    /\ pass = 2

\* C9: prefetch engine with an empty source, any N >= 1: handle_request is
\* never called, nothing is yielded, no fault reaches the caller, the stream
\* runs on until it has terminated normally, and by then exactly one error was
\* logged (none before).
C9_EmptyStream ==
    (engine = "prefetch" /\ num_requests = 0 /\ src_end = "stop") =>
        /\ dispatched = <<>>
        /\ yielded = <<>>
        /\ pc \in {"start", "fill", "done"}
        /\ log_errors = IF pc = "done" THEN 1 ELSE 0
        /\ pc = "done" \/ ENABLED Next

C9_Witness ==
    /\ engine = "prefetch" /\ num_requests = 0 /\ src_end = "stop"
    /\ prefetch = 3
    /\ pc = "done"
    /\ log_errors = 1
    /\ yielded = <<>>

\* C10: in both engines, the requests dispatched so far are, in order, the
\* first requests of the source, and the rest of the source is still to come.
C10_DispatchInSourceOrder ==
    /\ IsPrefix(dispatched, Source)
    /\ dispatched \o request_iterator = Source

C10_Witness ==
    /\ engine = "prefetch"
    /\ prefetch = 2
    /\ dispatched = <<1, 2, 3>>
    /\ completed = <<2, 1>>
    /\ yielded = <<2>>
    /\ request_iterator = <<4>>

\* C11: unbounded engine: once the stream is started, the producer's next step
\* is enabled whenever the source has a further request, whatever the consumer
\* and the futures do; so all L requests are eventually dispatched, also when
\* the caller never pulls again after its first pull.
C11_DispatchNeverWaits ==
    /\ []((engine = "unbounded" /\ pc # "start" /\ request_iterator # <<>>)
             => ENABLED IterateRequests)
    /\ (engine = "unbounded") => <>(Len(dispatched) = num_requests)

C11_Witness ==
    /\ engine = "unbounded"
    /\ pc = "yield"
    /\ num_requests = 4
    /\ Len(dispatched) = 4
    /\ Len(yielded) = 1
    /\ Len(result_queue) = 2

\* C12: unbounded engine: whenever all_requests_handled is set, the source is
\* exhausted and end_of_iter is set, requests_to_handle is empty, every
\* dispatched operation has completed and had its result yielded, and neither
\* the queue nor the get task holds an unconsumed entry.
C12_TerminalState ==
    (engine = "unbounded" /\ all_requests_handled) =>
        /\ end_of_iter
        /\ request_iterator = <<>>
        /\ requests_to_handle = {}
        /\ \A r \in Range(dispatched) : status[r] = "ok" /\ r \in Range(yielded)
        /\ result_queue = <<>>
        /\ get_result_task.st = "done" => get_result_task.rid \in Range(yielded)

C12_Witness ==
    /\ engine = "unbounded"
    /\ all_requests_handled
    /\ set_by = "consumer"
    /\ num_requests = 3
    /\ pc = "done"

\* C13: in both engines the outcome of an operation is read at most once, and
\* it is read exactly when the consumer yields its result (or raises its
\* failure to the caller); a completion alone reads nothing.
C13_OutcomeReadOnce ==
    \A r \in Ids :
        /\ reads[r] <= 1
        /\ r \in Range(yielded) => reads[r] = 1
        /\ reads[r] = 1 => (r \in Range(yielded) \/ (pc = "op_fault" /\ r \in fails))

C13_Witness ==
    /\ engine = "unbounded"
    /\ pc = "yield"
    /\ yielded = <<2>>
    /\ reads[2] = 1
    /\ result_queue = <<1>>
    /\ reads[1] = 0

\* The ids whose entry the consumer has taken (get_result_task.result()).
Consumed == Range(yielded) \cup (IF pc = "op_fault" THEN {get_result_task.rid} ELSE {})

C15_UnboundedTerminates ==
    (engine = "unbounded" /\ src_end = "stop" /\ fails = {}) =>
        <>(pc = "done" /\ all_requests_handled)

C15_Witness ==
    /\ engine = "unbounded" /\ src_end = "stop" /\ fails = {}
    /\ num_requests = 4
    /\ Len(yielded) = 4
    /\ set_by = "producer"
    /\ pc = "done"

\* C16: unbounded engine.  In the step in which the producer finds the source
\* exhausted it sets all_requests_handled exactly if requests_to_handle is
\* empty.  If it did, the consumer is waiting on an entry that never arrives
\* (everything dispatched is yielded), and the generator's next step ends the
\* stream without a further yield.  Otherwise the flag is set by the consumer,
\* on resuming from the yield of the last pending result.
C16_WhoSetsAllHandled ==
    /\ [][(engine = "unbounded" /\ ~end_of_iter /\ end_of_iter') =>
            /\ all_requests_handled' = (requests_to_handle = {})
            /\ all_requests_handled' => set_by' = "producer"
            /\ UNCHANGED <<pc, yielded>>]_vars
    /\ [](set_by = "producer" =>
            /\ pc \in {"wait", "done"}
            /\ get_result_task.st = "pending"
            /\ result_queue = <<>>
            /\ Range(yielded) = Range(dispatched)
            /\ pc = "wait" => ENABLED ConsumerWake)
    /\ [][(set_by = "producer" /\ pc = "wait" /\ pc' # pc) =>
            (pc' = "done" /\ yielded' = yielded)]_vars
    /\ [][(engine = "unbounded" /\ end_of_iter /\ ~all_requests_handled /\ all_requests_handled') =>
            /\ pc = "yield" /\ pc' = "done"
            /\ requests_to_handle = {yielded[Len(yielded)]}
            /\ Range(yielded) = Range(dispatched)
            /\ set_by' = "consumer"]_vars

C16_Witness ==
    /\ engine = "unbounded"
    /\ set_by = "producer"
    /\ num_requests = 2
    /\ yielded = <<2, 1>>
    /\ pc = "done"

\* The generator is in the interleaving loop (the source was not exhausted by
\* the initial fill).
Steady == engine = "prefetch" /\ pc \in {"wait", "yield", "refill"}

\* C17: prefetch engine, steady state.  While the source has not been observed
\* exhausted, every yielded result is followed by exactly one pull that
\* dispatches one request before the next result is awaited, so the dispatches
\* number prefetch plus the results yielded (one less between a yield and its
\* refill).  Once a pull has found the source exhausted, the source is never
\* pulled again and nothing more is dispatched.
C17_OneRefillPerYield ==
    /\ []((Steady /\ ~is_req_empty) =>
            /\ pc = "wait" => Len(dispatched) = prefetch + Len(yielded)
            /\ pc \in {"yield", "refill"} => Len(dispatched) = prefetch + Len(yielded) - 1
            /\ pc = "refill" => (count = 0 /\ num_req = 1))
    /\ [][(Steady /\ pc = "refill" /\ pc' # pc /\ pc' # "src_fault") =>
            /\ Len(dispatched') <= Len(dispatched) + 1
            /\ Len(dispatched') = Len(dispatched) => is_req_empty'
            /\ yielded' = yielded]_vars
    /\ [][(engine = "prefetch" /\ is_req_empty) =>
            /\ is_req_empty'
            /\ request_iterator = <<>>
            /\ pc' \notin {"fill", "refill"}
            /\ dispatched' = dispatched]_vars

C17_Witness ==
    /\ engine = "prefetch"
    /\ pc = "wait"
    /\ ~is_req_empty
    /\ prefetch = 2
    /\ Len(yielded) = 2
    /\ Len(dispatched) = 4
    /\ window_of[3] = 2

\* Prefetch engine, 0 < L <= N, source ending normally, operations successful
ShortInput ==
    /\ engine = "prefetch" /\ src_end = "stop" /\ fails = {}
    /\ 0 < num_requests /\ num_requests <= prefetch

\* What C18 says apart from the order of the results: all L requests are
\* dispatched before the first yield, there are no refills, there is one drain
\* pass, and the finished stream has yielded L results.
OnePassNoRefill ==
    /\ yielded # <<>> => Len(dispatched) = num_requests
    /\ onrecv_task = <<>>
    /\ \A r \in Range(dispatched) : window_of[r] = 1
    /\ pass <= 1
    /\ pc = "done" => Len(yielded) = num_requests

WindowSeqOf(d, w, k) == SelectSeq(d, LAMBDA r : w[r] = k)

\* The requests dispatched for drain pass k, in dispatch order
WindowSeq(k) == WindowSeqOf(dispatched, window_of, k)

\* C19: prefetch engine, interleaving loop.  The window being drained holds
\* the requests dispatched for this pass and onrecv_task the refills dispatched
\* during it, both in dispatch order; at the switch the refills become the
\* window.  No result of a later window is yielded before every result of an
\* earlier one.  When a pass is drained the loop ends exactly if the pass
\* issued no refill.  With N = 2 (the example: [A,B,C,D], B completing before
\* A, is yielded B, A, then C and D) each window is yielded in its completion
\* order.
C19_WindowSwap ==
    /\ [](Steady =>
            /\ prefetch_task = WindowSeq(pass)
            /\ onrecv_task = WindowSeq(pass + 1))
    /\ [][(Steady /\ pass' = pass + 1) =>
            /\ ac_left = 0
            /\ prefetch_task' = WindowSeqOf(dispatched', window_of', pass + 1)
            /\ prefetch_task' # <<>>
            /\ onrecv_task' = <<>>
            /\ pc' = "wait"]_vars
    /\ [](engine = "prefetch" =>
            \A x \in Range(dispatched), y \in Range(yielded) :
                window_of[x] < window_of[y] => Before(yielded, x, y))
    /\ [][(Steady /\ ac_left = 0 /\ pc' \in {"wait", "done"}) =>
            ((pc' = "done") = (WindowSeqOf(dispatched', window_of', pass + 1) = <<>>))]_vars
    /\ []((engine = "prefetch" /\ prefetch = 2) =>
            \A x, y \in Range(yielded) :
                (window_of[x] = window_of[y] /\ Before(completed, x, y))
                    => Before(yielded, x, y))

C19_Witness ==
    /\ engine = "prefetch"
    /\ prefetch = 2
    /\ dispatched = <<1, 2, 3, 4>>
    /\ completed = <<2, 1, 4, 3>>
    /\ yielded = <<2, 1, 4, 3>>
    /\ pass = 2
    /\ pc = "done"

====
